---- MODULE Spec2Model ----
(***************************************************************************)
(* Model of scripts/find-hardcoded-colors.py: a one-shot scanner that      *)
(* walks app/**/*.tsx, skips excluded paths, matches four regular          *)
(* expressions against every line of every remaining file, aggregates the  *)
(* matches per rule and per file, and prints a grouped report.             *)
(*                                                                         *)
(* Strings are sequences of one-character strings, so that splitting,      *)
(* substring search, regular-expression matching and lexicographic         *)
(* sorting are computed character by character, as Python computes them.   *)
(* A Python dict is a sequence of <<key, value>> pairs in insertion order. *)
(***************************************************************************)
EXTENDS Naturals, Sequences, FiniteSets

\* ------------------------------------------------------------ bounds ----
\* files in the scanned tree
MaxFiles == 2
\* tokens in the content of the file given to the scanner in SpecScan
MaxTokens == 3

\* --------------------------------------------------------- characters ---
\* the grave accent (code point 96), which a TLA+ string cannot hold
Backtick == "GRAVE"

Ascii ==
  <<" ","!","\"","#","$","%","&","'","(",")","*","+",",","-",".","/",
    "0","1","2","3","4","5","6","7","8","9",":",";","<","=",">","?","@",
    "A","B","C","D","E","F","G","H","I","J","K","L","M","N","O","P","Q",
    "R","S","T","U","V","W","X","Y","Z","[","\\","]","^","_",Backtick,
    "a","b","c","d","e","f","g","h","i","j","k","l","m","n","o","p","q",
    "r","s","t","u","v","w","x","y","z","{","|","}","~">>

\* code point of a character (printable ASCII and the newline)
Ord(c) == IF c = "\n" THEN 10 ELSE 31 + (CHOOSE i \in 1..Len(Ascii) : Ascii[i] = c)

Digits == {"0","1","2","3","4","5","6","7","8","9"}

\* the class \w of the re module
WordChars ==
  Digits \cup {"_"} \cup
  {"A","B","C","D","E","F","G","H","I","J","K","L","M","N","O","P","Q",
   "R","S","T","U","V","W","X","Y","Z",
   "a","b","c","d","e","f","g","h","i","j","k","l","m","n","o","p","q",
   "r","s","t","u","v","w","x","y","z"}

\* the class \s of the re module, also what str.strip() removes
Whitespace == {" ", "\t", "\n", "\r", "\f"}

\* ------------------------------------------------- string primitives ----
\* F(e), with e evaluated once however often F reads its argument
With(e, F(_)) == CHOOSE r \in {F(v) : v \in {e}} : TRUE

\* s[i..] starts with lit
StartsWithAt(s, i, lit) ==
  /\ i + Len(lit) - 1 <= Len(s)
  /\ \A j \in 1..Len(lit) : s[i + j - 1] = lit[j]

\* Python: sub in s
Contains(s, sub) == \E i \in 1..(Len(s) + 1) : StartsWithAt(s, i, sub)

\* Python: a < b on str (code-point lexicographic order)
RECURSIVE StrLess(_, _)
StrLess(a, b) ==
  IF b = <<>> THEN FALSE
  ELSE IF a = <<>> THEN TRUE
  ELSE IF a[1] # b[1] THEN Ord(a[1]) < Ord(b[1])
  ELSE StrLess(Tail(a), Tail(b))

\* the least element of a non-empty set of numbers
Least(S) == CHOOSE j \in S : \A k \in S : j <= k

\* Python: content.split('\n'); SplitFrom gives the pieces of s[i..]
RECURSIVE SplitFrom(_, _)
SplitFrom(s, i) ==
  LET newlines == {j \in i..Len(s) : s[j] = "\n"} IN
    IF newlines = {} THEN <<SubSeq(s, i, Len(s))>>
    ELSE <<SubSeq(s, i, Least(newlines) - 1)>> \o SplitFrom(s, Least(newlines) + 1)

Split(s) == SplitFrom(s, 1)

\* Python: line.strip()
RECURSIVE LStrip(_)
LStrip(s) == IF s # <<>> /\ s[1] \in Whitespace THEN LStrip(Tail(s)) ELSE s

RECURSIVE RStrip(_)
RStrip(s) ==
  IF s # <<>> /\ s[Len(s)] \in Whitespace THEN RStrip(SubSeq(s, 1, Len(s) - 1)) ELSE s

Strip(s) == RStrip(LStrip(s))

CONTEXT_LEN == 100

\* Python: s[:n]
Truncate(s, n) == IF Len(s) <= n THEN s ELSE SubSeq(s, 1, n)

\* --------------------------------------------- regular expressions ------
\* A pattern is a sequence of elements: a literal, a greedy one-or-more
\* repetition of a character class, or one character of a set.
Lit(l) == [t |-> "lit", s |-> l, set |-> {}]
Plus(cls) == [t |-> "plus", s |-> <<>>, set |-> cls]
OneOf(cls) == [t |-> "one", s |-> <<>>, set |-> cls]

\* end of the maximal run of characters of cls starting at s[i]
RECURSIVE RunEnd(_, _, _)
RunEnd(cls, s, i) ==
  IF i <= Len(s) /\ s[i] \in cls THEN RunEnd(cls, s, i + 1) ELSE i

\* Matches elements k.. of pat at s[i..]: the index after the match, or 0.
\* A repetition is greedy and backtracks from its longest run downwards.
RECURSIVE re_match_at(_, _, _, _)
RECURSIVE re_backtrack(_, _, _, _, _)
re_match_at(pat, s, i, k) ==
  IF k > Len(pat) THEN i
  ELSE LET e == pat[k] IN
    CASE e.t = "lit" ->
           IF StartsWithAt(s, i, e.s) THEN re_match_at(pat, s, i + Len(e.s), k + 1) ELSE 0
      [] e.t = "plus" ->
           With(RunEnd(e.set, s, i), LAMBDA j : re_backtrack(pat, s, i, k, j))
      [] e.t = "one" ->
           IF i <= Len(s) /\ s[i] \in e.set THEN re_match_at(pat, s, i + 1, k + 1) ELSE 0

re_backtrack(pat, s, i, k, j) ==
  IF j <= i THEN 0
  ELSE With(re_match_at(pat, s, j, k + 1), LAMBDA r :
         IF r # 0 THEN r ELSE re_backtrack(pat, s, i, k, j - 1))

\* re.findall(regex, line): the non-overlapping matches, left to right; the
\* next match starts at the first position of s[i..] where the pattern matches
RECURSIVE FindAllFrom(_, _, _)
FindAllFrom(pat, s, i) ==
  With({j \in i..Len(s) : re_match_at(pat, s, j, 1) # 0}, LAMBDA starts :
    IF starts = {} THEN <<>>
    ELSE With(Least(starts), LAMBDA j :
           With(re_match_at(pat, s, j, 1), LAMBDA e :
             <<SubSeq(s, j, e - 1)>> \o FindAllFrom(pat, s, e))))

re_findall(pat, s) == FindAllFrom(pat, s, 1)

\* re.search(pattern, filepath) is not None
re_search(pat, s) == \E i \in 1..Len(s) : re_match_at(pat, s, i, 1) # 0

\* ------------------------------------------------------- dictionaries ---
DictKeys(d) == [i \in 1..Len(d) |-> d[i][1]]

DictHas(d, k) == With(d, LAMBDA v : \E i \in 1..Len(v) : v[i][1] = k)

DictGet(d, k) == With(d, LAMBDA v : v[CHOOSE i \in 1..Len(v) : v[i][1] = k][2])

\* d[k] = x: a present key keeps its position, a new key goes last
DictSet(d, k, x) ==
  With(d, LAMBDA v :
    IF DictHas(v, k)
    THEN [i \in 1..Len(v) |-> IF v[i][1] = k THEN <<k, x>> ELSE v[i]]
    ELSE Append(v, <<k, x>>))

\* defaultdict(list): d[k].append(x)
DictAppend(d, k, x) ==
  With(d, LAMBDA v :
    IF DictHas(v, k) THEN DictSet(v, k, Append(DictGet(v, k), x))
    ELSE Append(v, <<k, <<x>>>>))

\* the contents of a dict, without its insertion order (what == compares)
DictContents(d) == {d[i] : i \in 1..Len(d)}

\* ----------------------------------------------------- configuration ----
RULE_BG50 == <<"b","g","-","*","-","5","0"," ","(","u","s","e"," ","-","1","0","0",")">>
RULE_DARK_BG == <<"d","a","r","k",":","b","g","-","*","-","N","/","o","p","a","c","i","t","y">>
RULE_DARK_HOVER ==
  <<"d","a","r","k",":","h","o","v","e","r",":","b","g","-","*","-","N","/",
    "o","p","a","c","i","t","y">>
RULE_DARK_BORDER ==
  <<"d","a","r","k",":","b","o","r","d","e","r","-","*","-","N","/",
    "o","p","a","c","i","t","y">>

\* PATTERNS, in the order the dict literal lists them:
\*   bg-\w+-50(?:\s|\"|\`|\/)       dark:bg-\w+-\d+/\d+
\*   dark:hover:bg-\w+-\d+/\d+      dark:border-\w+-\d+/\d+
PATTERNS ==
  << <<RULE_BG50,
       <<Lit(<<"b","g","-">>), Plus(WordChars), Lit(<<"-","5","0">>),
         OneOf(Whitespace \cup {"\"", Backtick, "/"})>> >>,
     <<RULE_DARK_BG,
       <<Lit(<<"d","a","r","k",":","b","g","-">>), Plus(WordChars), Lit(<<"-">>),
         Plus(Digits), Lit(<<"/">>), Plus(Digits)>> >>,
     <<RULE_DARK_HOVER,
       <<Lit(<<"d","a","r","k",":","h","o","v","e","r",":","b","g","-">>),
         Plus(WordChars), Lit(<<"-">>), Plus(Digits), Lit(<<"/">>), Plus(Digits)>> >>,
     <<RULE_DARK_BORDER,
       <<Lit(<<"d","a","r","k",":","b","o","r","d","e","r","-">>),
         Plus(WordChars), Lit(<<"-">>), Plus(Digits), Lit(<<"/">>), Plus(Digits)>> >> >>

RuleNames == {PATTERNS[i][1] : i \in 1..Len(PATTERNS)}

\* IGNORE_PATTERNS: node_modules, \.next, dist, lib/colors\.ts, tailwind\.config
IGNORE_PATTERNS ==
  << <<Lit(<<"n","o","d","e","_","m","o","d","u","l","e","s">>)>>,
     <<Lit(<<".","n","e","x","t">>)>>,
     <<Lit(<<"d","i","s","t">>)>>,
     <<Lit(<<"l","i","b","/","c","o","l","o","r","s",".","t","s">>)>>,
     <<Lit(<<"t","a","i","l","w","i","n","d",".","c","o","n","f","i","g">>)>> >>

FOCUS_RING == <<"f","o","c","u","s",":","r","i","n","g">>
SUFFIX_900_50 == <<"-","9","0","0","/","5","0">>

\* ------------------------------------------------------ should_ignore ---
RECURSIVE ignore_from(_, _)
ignore_from(filepath, k) ==
  IF k > Len(IGNORE_PATTERNS) THEN FALSE
  ELSE IF re_search(IGNORE_PATTERNS[k], filepath) THEN TRUE
  ELSE ignore_from(filepath, k + 1)

\* a slip: re.match, which anchors the pattern at the start of the path
should_ignore_anchored(filepath) ==
  \E k \in 1..Len(IGNORE_PATTERNS) : re_match_at(IGNORE_PATTERNS[k], filepath, 1, 1) # 0

should_ignore(filepath) == ignore_from(filepath, 1)

\* ---------------------------------------------- find_patterns_in_file ---
\* a slip: the whole line is skipped once it holds the focus-ring marker
suppressed_whole_line(line, match) == Contains(line, FOCUS_RING)

\* line 61: "focus:ring" in line and "-900/50" in match
suppressed(line, match) == Contains(line, FOCUS_RING) /\ Contains(match, SUFFIX_900_50)

\* a slip: enumerate(lines), which counts from 0
line_number_from_zero(index) == index - 1

\* enumerate(lines, 1) over the list whose first element has index 1 here
line_number(index) == index

Match(line_num, match, line) ==
  [line |-> line_num, match |-> match, context |-> Truncate(Strip(line), CONTEXT_LEN)]

\* for match in matches: ...
RECURSIVE scan_matches(_, _, _, _, _, _)
scan_matches(results, line_num, line, pattern_name, matches, i) ==
  IF i > Len(matches) THEN results
  ELSE IF suppressed(line, matches[i])
    THEN scan_matches(results, line_num, line, pattern_name, matches, i + 1)
    ELSE scan_matches(DictAppend(results, pattern_name, Match(line_num, matches[i], line)),
                      line_num, line, pattern_name, matches, i + 1)

\* for pattern_name, regex in PATTERNS.items(): ...
RECURSIVE scan_patterns(_, _, _, _)
scan_patterns(results, line_num, line, k) ==
  IF k > Len(PATTERNS) THEN results
  ELSE scan_patterns(
         With(re_findall(PATTERNS[k][2], line), LAMBDA matches :
           scan_matches(results, line_num, line, PATTERNS[k][1], matches, 1)),
         line_num, line, k + 1)

\* for line_num, line in enumerate(lines, 1): ...
RECURSIVE scan_lines(_, _, _)
scan_lines(results, lines, index) ==
  IF index > Len(lines) THEN results
  ELSE scan_lines(scan_patterns(results, line_number(index), lines[index], 1),
                  lines, index + 1)

\* One output line: its kind, its text and the numbers formatted into it.
OutLine(kind, text, n, m) == [kind |-> kind, text |-> text, n |-> n, m |-> m]

\* a slip: the failure is swallowed without a message
read_error_silent(filepath) == <<>>

\* line 69: print(f"Error reading {filepath}: {e}")
read_error_output(filepath) == <<OutLine("error", filepath, 0, 0)>>

\* a slip: an except clause too narrow for the failure, which then propagates
find_patterns_in_file_uncaught(filepath, file) ==
  IF file.readable
  THEN [results |-> With(Split(file.content), LAMBDA lines : scan_lines(<<>>, lines, 1)),
        printed |-> <<>>, raised |-> FALSE]
  ELSE [results |-> <<>>, printed |-> <<>>, raised |-> TRUE]

\* The file's ScanResult, what the call prints, and whether it raises.
\* read_text() fails on an unreadable file before anything is recorded, and
\* "except Exception" catches the failure, so the call never raises.
find_patterns_in_file(filepath, file) ==
  IF file.readable
  THEN [results |-> With(Split(file.content), LAMBDA lines : scan_lines(<<>>, lines, 1)),
        printed |-> <<>>, raised |-> FALSE]
  ELSE [results |-> <<>>, printed |-> read_error_output(filepath), raised |-> FALSE]

\* --------------------------------------------------------------- main ---
VARIABLES
  app_parent,    \* APP_DIR.parent, the directory that holds app/
  tree,          \* the file system: full path -> [readable, content]
  pending,       \* the files APP_DIR.rglob("*.tsx") has still to yield
  tsx_file,      \* the loop variable of the walk (<<>> before the first file)
  results,       \* what find_patterns_in_file returned for tsx_file
  all_results,   \* dict: rule name -> dict: relative path -> list of Match
  total_issues,
  stdout,        \* the lines printed to standard output, one per print call
  stderr,        \* the lines printed to standard error
  section,       \* position of the report loop in sorted(all_results.items())
  pc,            \* "banner", "walk", "report", "exit", "done"
  exit_code      \* "none" while running, then the process's exit status

vars == <<app_parent, tree, pending, tsx_file, results, all_results, total_issues,
          stdout, stderr, section, pc, exit_code>>

Min(a, b) == IF a <= b THEN a ELSE b

RECURSIVE Cat(_)
Cat(parts) == IF parts = <<>> THEN <<>> ELSE parts[1] \o Cat(Tail(parts))

\* line 15: APP_DIR = Path(__file__).parent.parent / "app"
APP_DIR(parent) == parent \o <<"/","a","p","p">>

EndsWith(s, suffix) ==
  Len(suffix) <= Len(s) /\ SubSeq(s, Len(s) - Len(suffix) + 1, Len(s)) = suffix

\* APP_DIR.rglob("*.tsx"): the files below APP_DIR whose name ends in .tsx
rglob(parent, fs) ==
  {p \in DOMAIN fs : /\ StartsWithAt(p, 1, APP_DIR(parent) \o <<"/">>)
                     /\ EndsWith(p, <<".","t","s","x">>)}

\* line 89: tsx_file.relative_to(APP_DIR.parent)
relative_to(parent, filepath) == SubSeq(filepath, Len(parent) + 2, Len(filepath))

\* a slip: all_results[pattern_name] = {rel_path: matches}
merge_entry_overwrite(all, pattern_name, rel_path, matches) ==
  DictSet(all, pattern_name, <<<<rel_path, matches>>>>)

\* line 91: all_results[pattern_name][str(rel_path)] = matches, where a rule
\* seen for the first time gets an empty dict of its own
merge_entry(all, pattern_name, rel_path, matches) ==
  LET files == IF DictHas(all, pattern_name) THEN DictGet(all, pattern_name) ELSE <<>>
  IN DictSet(all, pattern_name, DictSet(files, rel_path, matches))

\* a slip: total_issues += 1
count_issues_once(matches) == 1

\* line 92: total_issues += len(matches)
count_issues(matches) == Len(matches)

\* lines 90-92: for pattern_name, matches in results.items(): ...
RECURSIVE merge_results(_, _, _, _)
merge_results(acc, rel_path, res, k) ==
  IF k > Len(res) THEN acc
  ELSE With(acc, LAMBDA a :
         merge_results(
           [all_results |-> merge_entry(a.all_results, res[k][1], rel_path, res[k][2]),
            total_issues |-> a.total_issues + count_issues(res[k][2])],
           rel_path, res, k + 1))

\* sorted(): insertion of each item before the first item with a greater key
RECURSIVE insert_sorted(_, _)
insert_sorted(sorted, item) ==
  With(sorted, LAMBDA v :
    IF v = <<>> THEN <<item>>
    ELSE IF StrLess(item[1], v[1][1]) THEN <<item>> \o v
    ELSE <<v[1]>> \o insert_sorted(Tail(v), item))

RECURSIVE sort_from(_, _, _)
sort_from(d, k, acc) ==
  IF k > Len(d) THEN acc ELSE sort_from(d, k + 1, insert_sorted(acc, d[k]))

\* a slip: the dict is iterated in insertion order
unsorted_items(d) == d

\* sorted(d.items())
sorted_items(d) == sort_from(d, 1, <<>>)

MAX_SHOWN == 5

\* a slip: the note is printed from the fifth match on
more_note_from_five(matches) ==
  IF Len(matches) >= MAX_SHOWN
  THEN <<OutLine("more", <<>>, Len(matches) - MAX_SHOWN, 0)>> ELSE <<>>

\* lines 108-109: the truncation note
more_note(matches) ==
  IF Len(matches) > MAX_SHOWN
  THEN <<OutLine("more", <<>>, Len(matches) - MAX_SHOWN, 0)>> ELSE <<>>

\* lines 105-109: one file of a rule section
file_lines(filepath, matches) ==
  <<OutLine("file", filepath, 0, 0)>>
  \o [i \in 1..Min(Len(matches), MAX_SHOWN) |->
        OutLine("match", matches[i].match, matches[i].line, 0)]
  \o more_note(matches)

RECURSIVE files_lines(_, _)
files_lines(items, k) ==
  IF k > Len(items) THEN <<>>
  ELSE file_lines(items[k][1], items[k][2]) \o files_lines(items, k + 1)

\* sum(len(matches) for matches in files.values())
RECURSIVE match_count(_)
match_count(files) ==
  IF files = <<>> THEN 0 ELSE Len(files[1][2]) + match_count(Tail(files))

\* lines 96-109: one rule section
section_lines(pattern_name, files) ==
  << OutLine("sep", <<>>, 0, 0),
     OutLine("pattern", pattern_name, 0, 0),
     OutLine("counts", <<>>, Len(files), match_count(files)),
     OutLine("sep", <<>>, 0, 0) >>
  \o With(sorted_items(files), LAMBDA items : files_lines(items, 1))

\* lines 118-120: the per-rule lines of the summary
RECURSIVE rule_summary_lines(_, _)
rule_summary_lines(items, k) ==
  IF k > Len(items) THEN <<>>
  ELSE <<OutLine("rule_total", items[k][1], match_count(items[k][2]), Len(items[k][2]))>>
       \o rule_summary_lines(items, k + 1)

\* lines 112-128
summary_lines(all, total) ==
  << OutLine("sep", <<>>, 0, 0), OutLine("summary", <<>>, 0, 0),
     OutLine("sep", <<>>, 0, 0), OutLine("total", <<>>, total, 0),
     OutLine("blank", <<>>, 0, 0) >>
  \o With(sorted_items(all), LAMBDA items : rule_summary_lines(items, 1))
  \o << OutLine("blank", <<>>, 0, 0), OutLine("hint", <<>>, 0, 0),
        OutLine("hint", <<>>, 1, 0), OutLine("hint", <<>>, 2, 0),
        OutLine("hint", <<>>, 3, 0), OutLine("hint", <<>>, 4, 0),
        OutLine("blank", <<>>, 0, 0) >>

\* a slip: print(..., file=sys.stderr)
print_file_stderr == "stderr"

\* print() without file= writes to sys.stdout
print_file == "stdout"

\* lines 74-77, and the start of the for loop of line 83
Banner ==
  /\ pc = "banner"
  /\ stdout' = stdout \o << OutLine("sep", <<>>, 0, 0), OutLine("title", <<>>, 0, 0),
                            OutLine("sep", <<>>, 0, 0), OutLine("blank", <<>>, 0, 0) >>
  /\ pending' = rglob(app_parent, tree)
  /\ pc' = "walk"
  /\ UNCHANGED <<app_parent, tree, tsx_file, results, all_results, total_issues,
                 stderr, section, exit_code>>

\* lines 83-85: the next file is excluded
Skip(f) ==
  /\ pc = "walk"
  /\ f \in pending
  /\ should_ignore(f)
  /\ tsx_file' = f
  /\ pending' = pending \ {f}
  /\ UNCHANGED <<app_parent, tree, results, all_results, total_issues, stdout, stderr,
                 section, pc, exit_code>>

\* lines 83-92: the next file is scanned and its results are merged
Scan(f) ==
  /\ pc = "walk"
  /\ f \in pending
  /\ ~should_ignore(f)
  /\ tsx_file' = f
  /\ pending' = pending \ {f}
  /\ \E r \in {find_patterns_in_file(f, tree[f])} :
       IF r.raised
       THEN \* an uncaught exception ends the process with a traceback
            /\ stderr' = Append(stderr, OutLine("traceback", f, 0, 0))
            /\ pc' = "done"
            /\ exit_code' = "1"
            /\ UNCHANGED <<results, all_results, total_issues, stdout>>
       ELSE \E merged \in
              { IF r.results # <<>>
                THEN merge_results(
                       [all_results |-> all_results, total_issues |-> total_issues],
                       relative_to(app_parent, f), r.results, 1)
                ELSE [all_results |-> all_results, total_issues |-> total_issues] } :
              /\ results' = r.results
              /\ stdout' = IF print_file = "stdout" THEN stdout \o r.printed ELSE stdout
              /\ stderr' = IF print_file = "stderr" THEN stderr \o r.printed ELSE stderr
              /\ all_results' = merged.all_results
              /\ total_issues' = merged.total_issues
              /\ UNCHANGED <<pc, exit_code>>
  /\ UNCHANGED <<app_parent, tree, section>>

\* the for loop of line 83 is exhausted
WalkDone ==
  /\ pc = "walk"
  /\ pending = {}
  /\ pc' = "report"
  /\ section' = 1
  /\ UNCHANGED <<app_parent, tree, pending, tsx_file, results, all_results,
                 total_issues, stdout, stderr, exit_code>>

\* lines 95-109: one iteration of the report loop
PrintSection ==
  /\ pc = "report"
  /\ section <= Len(all_results)
  /\ \E item \in {sorted_items(all_results)[section]} :
       stdout' = stdout \o section_lines(item[1], item[2])
  /\ section' = section + 1
  /\ UNCHANGED <<app_parent, tree, pending, tsx_file, results, all_results,
                 total_issues, stderr, pc, exit_code>>

\* lines 111-128
PrintSummary ==
  /\ pc = "report"
  /\ section > Len(all_results)
  /\ stdout' = stdout \o summary_lines(all_results, total_issues)
  /\ pc' = "exit"
  /\ UNCHANGED <<app_parent, tree, pending, tsx_file, results, all_results,
                 total_issues, stderr, section, exit_code>>

\* main() returns and the interpreter exits
Exit ==
  /\ pc = "exit"
  /\ pc' = "done"
  /\ exit_code' = "0"
  /\ UNCHANGED <<app_parent, tree, pending, tsx_file, results, all_results,
                 total_issues, stdout, stderr, section>>

Next ==
  \/ Banner
  \/ \E f \in pending : Skip(f)
  \/ \E f \in pending : Scan(f)
  \/ WalkDone
  \/ PrintSection
  \/ PrintSummary
  \/ Exit

\* ------------------------------------------------------------ inputs ---
\* Where the repository may live: a neutral directory, and one whose own
\* name matches an exclusion pattern.
AppParents == { <<"/","w">>, <<"/","s","r","v","/",".","n","e","x","t">> }

\* Candidate files, relative to APP_DIR.parent.
RelPaths ==
  { <<"a","p","p","/","a",".","t","s","x">>,
    <<"a","p","p","/","B",".","t","s","x">>,
    <<"a","p","p","/","d","i","s","t","/","c",".","t","s","x">>,
    <<"a","p","p","/","l","i","b","/","c","o","l","o","r","s",".","t","s","x">>,
    <<"a","p","p","/","d",".","t","s">> }

FullPath(parent, rel) == parent \o <<"/">> \o rel

TOK_FOCUS == <<"f","o","c","u","s",":","r","i","n","g","-","2"," ">>
TOK_DARK_BG_900 ==
  <<"d","a","r","k",":","b","g","-","b","l","u","e","-","9","0","0","/","5","0">>
TOK_DARK_HOVER_900 ==
  <<"d","a","r","k",":","h","o","v","e","r",":","b","g","-","b","l","u","e","-",
    "9","0","0","/","5","0">>
TOK_DARK_BG_50 == <<"d","a","r","k",":","b","g","-","r","e","d","-","5","0","/","2","0">>
TOK_DARK_BORDER ==
  <<"d","a","r","k",":","b","o","r","d","e","r","-","g","r","a","y","-","7","0","0","/","4","0">>
TOK_BG_50_QUOTE == <<"b","g","-","r","e","d","-","5","0","\"">>
TOK_SPACE == <<" ">>
TOK_NEWLINE == <<"\n">>

\* className="bg-red-50 p-2"
CONTENT_BG50 ==
  <<"c","l","a","s","s","N","a","m","e","=","\"","b","g","-","r","e","d","-","5","0",
    " ","p","-","2","\"">>

\* focus:ring-2 dark:bg-blue-900/50 dark:bg-red-50/20
\* dark:hover:bg-blue-900/50
CONTENT_MIXED ==
  Cat(<<TOK_FOCUS, TOK_DARK_BG_900, TOK_SPACE, TOK_DARK_BG_50, TOK_NEWLINE,
        TOK_DARK_HOVER_900>>)

\* six dark:border matches, three on each of two lines
CONTENT_SIX ==
  Cat(<<TOK_DARK_BORDER, TOK_SPACE, TOK_DARK_BORDER, TOK_SPACE, TOK_DARK_BORDER,
        TOK_NEWLINE,
        TOK_DARK_BORDER, TOK_SPACE, TOK_DARK_BORDER, TOK_SPACE, TOK_DARK_BORDER>>)

\* five dark:bg matches: an empty first line, then five on the second
CONTENT_FIVE ==
  Cat(<<TOK_NEWLINE, TOK_DARK_BG_900, TOK_SPACE, TOK_DARK_BG_900, TOK_SPACE,
        TOK_DARK_BG_900, TOK_SPACE, TOK_DARK_BG_900, TOK_SPACE, TOK_DARK_BG_900>>)

CONTENT_PLAIN == <<"p","l","a","i","n"," ","t","e","x","t">>

Contents == {CONTENT_BG50, CONTENT_MIXED, CONTENT_SIX, CONTENT_FIVE, CONTENT_PLAIN}

\* A file is readable with some content, or read_text() fails on it.
Files ==
  {[readable |-> TRUE, content |-> c] : c \in Contents}
  \cup {[readable |-> FALSE, content |-> <<>>]}

Init ==
  /\ app_parent \in AppParents
  /\ \E P \in SUBSET RelPaths :
       /\ Cardinality(P) <= MaxFiles
       /\ tree \in [{FullPath(app_parent, p) : p \in P} -> Files]
  /\ pending = {}
  /\ tsx_file = <<>>
  /\ results = <<>>
  /\ all_results = <<>>
  /\ total_issues = 0
  /\ stdout = <<>>
  /\ stderr = <<>>
  /\ section = 0
  /\ pc = "banner"
  /\ exit_code = "none"

Spec == Init /\ [][Next]_vars

\* The process is never suspended: it runs each step as soon as it can.
FairSpec == Init /\ [][Next]_vars /\ WF_vars(Next)

\* ------------------------------------- the scanner as a pure function ---
Tokens ==
  {TOK_FOCUS, TOK_DARK_BG_900, TOK_DARK_HOVER_900, TOK_DARK_BG_50, TOK_DARK_BORDER,
   TOK_BG_50_QUOTE, TOK_NEWLINE}

TokenSeqs == UNION {[1..n -> Tokens] : n \in 0..MaxTokens}

SCAN_PATH == FullPath(<<"/","w">>, <<"a","p","p","/","a",".","t","s","x">>)

InitScan ==
  /\ app_parent = <<"/","w">>
  /\ \E f \in {[readable |-> TRUE, content |-> Cat(t)] : t \in TokenSeqs}
               \cup {[readable |-> FALSE, content |-> <<>>]} :
       tree = [p \in {SCAN_PATH} |-> f]
  /\ pending = {}
  /\ tsx_file = SCAN_PATH
  /\ results = <<>>
  /\ all_results = <<>>
  /\ total_issues = 0
  /\ stdout = <<>>
  /\ stderr = <<>>
  /\ section = 0
  /\ pc = "scan"
  /\ exit_code = "none"

\* line 87: results = find_patterns_in_file(tsx_file)
ScanFile ==
  /\ pc = "scan"
  /\ \E r \in {find_patterns_in_file(tsx_file, tree[tsx_file])} :
       /\ results' = r.results
       /\ stdout' = IF print_file = "stdout" THEN stdout \o r.printed ELSE stdout
       /\ stderr' = IF print_file = "stderr" THEN stderr \o r.printed ELSE stderr
  /\ pc' = "scanned"
  /\ UNCHANGED <<app_parent, tree, pending, tsx_file, all_results, total_issues,
                 section, exit_code>>

NextScan == ScanFile

SpecScan == InitScan /\ [][NextScan]_vars

\* ------------------------------------------------------- properties ----
Range(q) == {q[i] : i \in 1..Len(q)}

Greatest(S) == CHOOSE j \in S : \A k \in S : k <= j

\* d.get(k, []) for a dict of lists or of dicts
ValueOr(d, k) == IF DictHas(d, k) THEN DictGet(d, k) ELSE <<>>

\* The path matches an exclusion pattern: every pattern is one literal, so
\* it matches exactly when the literal is a substring of the path.
Excluded(f) == \E k \in 1..Len(IGNORE_PATTERNS) : Contains(f, IGNORE_PATTERNS[k][1].s)

Walked == rglob(app_parent, tree)
Scannable == {f \in Walked : ~Excluded(f)}
ReadableFiles == {f \in Scannable : tree[f].readable}
UnreadableFiles == Scannable \ ReadableFiles
Visited == IF pc = "banner" THEN {} ELSE Walked \ pending
AfterWalk == pc \in {"report", "exit", "done"}

RelOf(f) == relative_to(app_parent, f)
ScanOf(f) == scan_lines(<<>>, Split(tree[f].content), 1)

\* the AggregateReport as a set of <<rule, relative path, matches>>
Triples ==
  UNION { { <<all_results[i][1], all_results[i][2][j][1], all_results[i][2][j][2]>> :
            j \in 1..Len(all_results[i][2]) } : i \in 1..Len(all_results) }

Entry(rule, rel) == ValueOr(ValueOr(all_results, rule), rel)

ErrorCount(out, f) ==
  Cardinality({i \in 1..Len(out) : out[i].kind = "error" /\ out[i].text = f})

\* the ScanResult of every file of S
ScanTable(S) == [f \in S |-> ScanOf(f)]

\* the number of matches the ScanResults of the files of S hold
RECURSIVE SumFiles(_, _)
SumFiles(st, S) ==
  IF S = {} THEN 0
  ELSE LET x == CHOOSE x \in S : TRUE IN match_count(st[x]) + SumFiles(st, S \ {x})

\* the number of matches a set of <<rule, path, matches>> holds
RECURSIVE SumTriples(_)
SumTriples(S) ==
  IF S = {} THEN 0
  ELSE LET t == CHOOSE t \in S : TRUE IN Len(t[3]) + SumTriples(S \ {t})

\* C1: a file whose full path matches an exclusion pattern is never read:
\* at no point of the run does it have an entry under any rule or an error
\* line, whatever it contains and whether or not it is readable.
C1_ExcludedNeverScanned ==
  \A f \in DOMAIN tree :
    Excluded(f) =>
      /\ \A t \in Triples : t[2] # RelOf(f)
      /\ ErrorCount(stdout, f) = 0
      /\ ErrorCount(stderr, f) = 0

C1_Witness ==
  /\ pc = "done"
  /\ \E f \in Walked, g \in Walked :
       /\ Excluded(f) /\ tree[f].readable /\ ScanOf(f) # <<>>
       /\ Excluded(g) /\ ~tree[g].readable

\* C2: after the walk every unreadable non-excluded file has exactly one
\* error line naming it, its scan returned an empty result, it has no entry
\* and adds nothing to the total, and every readable non-excluded file has
\* all its matches in the aggregate.
C2_ReadFailureIsolated ==
  /\ (tsx_file # <<>> /\ tsx_file \in UnreadableFiles) => results = <<>>
  /\ AfterWalk =>
       \A f \in UnreadableFiles :
         /\ ErrorCount(stdout \o stderr, f) = 1
         /\ \A t \in Triples : t[2] # RelOf(f)
  /\ pc = "done" =>
       LET st == ScanTable(ReadableFiles) IN
       /\ total_issues = SumFiles(st, DOMAIN st)
       /\ \A g \in DOMAIN st : \A k \in 1..Len(PATTERNS) :
            Entry(PATTERNS[k][1], RelOf(g)) = ValueOr(st[g], PATTERNS[k][1])

C2_Witness ==
  /\ pc = "done"
  /\ \E f \in UnreadableFiles, g \in ReadableFiles : ScanOf(g) # <<>>

\* C3 as stated: no error line is ever written to standard output.
C3_ErrorsNeverOnStdout == \A i \in 1..Len(stdout) : stdout[i].kind # "error"

\* C3, amended: nothing is written to standard error; each read failure
\* writes its error line to standard output, after the banner and before the
\* first rule section.
C3_ErrorsOnStdout ==
  /\ stderr = <<>>
  /\ \A f \in UnreadableFiles \cap Visited : ErrorCount(stdout, f) = 1
  /\ \A i \in 1..Len(stdout) :
       stdout[i].kind = "error" =>
         /\ i > 4
         /\ \A j \in 1..(i - 1) : stdout[j].kind \in {"sep", "title", "blank", "error"}

C3_Witness ==
  /\ pc = "done"
  /\ \E i \in 1..Len(stdout) : stdout[i].kind = "error"
  /\ \E i \in 1..Len(stdout) : stdout[i].kind = "pattern"

\* the file given to the scanner in SpecScan
ScanContent == tree[tsx_file].content
Scanned == pc = "scanned" /\ tree[tsx_file].readable

Occurrences(q, x) == Cardinality({i \in 1..Len(q) : q[i] = x})
Recorded(rec, n, m) ==
  Cardinality({i \in 1..Len(rec) : rec[i].line = n /\ rec[i].match = m})

\* C4: a match is discarded exactly when its line holds "focus:ring" and
\* the matched text holds "-900/50"; every other match of every line is
\* recorded, as often as it occurs, and nothing else is recorded.
C4_SuppressionPerMatch ==
  Scanned =>
    LET lines == Split(ScanContent) IN
    \A k \in 1..Len(PATTERNS) :
      LET rec == ValueOr(results, PATTERNS[k][1]) IN
      /\ \A n \in 1..Len(lines) :
           LET found == re_findall(PATTERNS[k][2], lines[n]) IN
           \A m \in Range(found) :
             Recorded(rec, n, m) =
               IF Contains(lines[n], FOCUS_RING) /\ Contains(m, SUFFIX_900_50)
               THEN 0 ELSE Occurrences(found, m)
      /\ \A i \in 1..Len(rec) :
           /\ rec[i].line \in 1..Len(lines)
           /\ rec[i].match \in Range(re_findall(PATTERNS[k][2], lines[rec[i].line]))

\* a line with the marker, a discarded match and a recorded match
C4_Witness ==
  /\ Scanned
  /\ LET lines == Split(ScanContent) IN
     \E n \in 1..Len(lines) :
       /\ Contains(lines[n], FOCUS_RING)
       /\ \E k \in 1..Len(PATTERNS) :
            \E m \in Range(re_findall(PATTERNS[k][2], lines[n])) :
              Contains(m, SUFFIX_900_50)
       /\ \E i \in 1..Len(results) :
            \E j \in 1..Len(results[i][2]) : results[i][2][j].line = n

\* C5: the total issue count is the number of matches in the aggregate, and
\* the total printed in the summary is the sum of the per-rule counts
\* printed below it.
RECURSIVE SumPrinted(_, _, _)
SumPrinted(out, kind, i) ==
  IF i > Len(out) THEN 0
  ELSE (IF out[i].kind = kind THEN out[i].n ELSE 0) + SumPrinted(out, kind, i + 1)

C5_TotalIsSum ==
  /\ total_issues = SumTriples(Triples)
  /\ pc \in {"exit", "done"} =>
       /\ SumPrinted(stdout, "total", 1) = total_issues
       /\ SumPrinted(stdout, "rule_total", 1) = total_issues

C5_Witness ==
  /\ pc = "done"
  /\ Len(all_results) >= 2
  /\ \E i \in 1..Len(all_results) : Len(all_results[i][2]) >= 2

\* physical lines of a text, counted by the newlines before a position
NewlinesBefore(c, j) == Cardinality({i \in 1..(j - 1) : c[i] = "\n"})
LineCount(c) == NewlinesBefore(c, Len(c) + 1) + 1
PhysicalLine(c, n) ==
  LET idx == {j \in 1..Len(c) : c[j] # "\n" /\ NewlinesBefore(c, j) = n - 1} IN
    IF idx = {} THEN <<>> ELSE SubSeq(c, Least(idx), Greatest(idx))

\* C6: every recorded match has a line number between 1 and the file's line
\* count, and its text is an occurrence of its rule's pattern in the
\* physical line of that number.
C6_LineNumbers ==
  Scanned =>
    \A i \in 1..Len(results) : \A j \in 1..Len(results[i][2]) :
      LET m == results[i][2][j] IN
      /\ m.line >= 1
      /\ m.line <= LineCount(ScanContent)
      /\ m.match \in Range(re_findall(DictGet(PATTERNS, results[i][1]),
                                      PhysicalLine(ScanContent, m.line)))

C6_Witness ==
  /\ Scanned
  /\ \E i \in 1..Len(results) : \E j \in 1..Len(results[i][2]) :
       results[i][2][j].line >= 2

\* the sequence of the pairs of S in ascending order of their keys
RECURSIVE Ascending(_)
Ascending(S) ==
  IF S = {} THEN <<>>
  ELSE LET x == CHOOSE x \in S : \A y \in S \ {x} : StrLess(x[1], y[1])
       IN <<x>> \o Ascending(S \ {x})

\* what the tree alone determines: the matches of every readable,
\* non-excluded file, per rule and relative path (st is their ScanTable)
ExpectedTriples(st) ==
  { t \in { <<PATTERNS[k][1], RelOf(f), ValueOr(st[f], PATTERNS[k][1])>> :
            k \in 1..Len(PATTERNS), f \in DOMAIN st } : t[3] # <<>> }

\* the triples as a dict of dicts, both levels in ascending order of key
ExpectedDict(et) ==
  Ascending({ <<r, Ascending({ <<t[2], t[3]>> : t \in {u \in et : u[1] = r} })>> :
              r \in {t[1] : t \in et} })

RECURSIVE sections_lines(_, _)
sections_lines(items, k) ==
  IF k > Len(items) THEN <<>>
  ELSE section_lines(items[k][1], items[k][2]) \o sections_lines(items, k + 1)

\* everything main() prints for an aggregate, read failures aside
Rendered(all, total) ==
  << OutLine("sep", <<>>, 0, 0), OutLine("title", <<>>, 0, 0),
     OutLine("sep", <<>>, 0, 0), OutLine("blank", <<>>, 0, 0) >>
  \o With(sorted_items(all), LAMBDA items : sections_lines(items, 1))
  \o summary_lines(all, total)

IsReportLine(l) == l.kind # "error"

\* C7: the final aggregate and the printed report are determined by the
\* tree alone, whatever order the walk visited the files in.
C7_OrderIndependent ==
  pc = "done" =>
    LET et == ExpectedTriples(ScanTable(ReadableFiles)) IN
    /\ Triples = et
    /\ SelectSeq(stdout, IsReportLine) = Rendered(ExpectedDict(et), SumTriples(et))

\* a run that merged two files of one rule in descending order of path
C7_Witness ==
  /\ pc = "done"
  /\ \E i \in 1..Len(all_results) :
       /\ Len(all_results[i][2]) >= 2
       /\ StrLess(all_results[i][2][2][1], all_results[i][2][1][1])

\* the only steps of the pipeline
PipelineStep ==
  <<pc, pc'>> \in { <<"banner", "walk">>, <<"walk", "walk">>, <<"walk", "report">>,
                    <<"report", "report">>, <<"report", "exit">>, <<"exit", "done">> }

\* C8: the run goes banner, walk, report, exit and always ends with exit
\* code 0 and the summary printed.
C8_RunsToCompletion ==
  /\ [][PipelineStep]_vars
  /\ <>(/\ pc = "done"
        /\ exit_code = "0"
        /\ \E i \in 1..Len(stdout) : stdout[i].kind = "total")

C8_Witness ==
  /\ pc = "done"
  /\ exit_code = "0"
  /\ UnreadableFiles # {}
  /\ total_issues > 0

PatternIdx == {i \in 1..Len(stdout) : stdout[i].kind = "pattern"}
FileIdx == {i \in 1..Len(stdout) : stdout[i].kind = "file"}
RuleAt(i) == stdout[Greatest({p \in PatternIdx : p < i})].text

\* C9: rule sections are printed in ascending order of rule name, the files
\* of a section in ascending order of path, and each file shows its first
\* min(n, 5) matches in recorded order, followed by a note of n - 5 more
\* exactly when n > 5.
C9_ReportOrder ==
  pc = "done" =>
    /\ \A i \in PatternIdx : \A j \in PatternIdx :
         i < j => StrLess(stdout[i].text, stdout[j].text)
    /\ {stdout[i].text : i \in PatternIdx} = Range(DictKeys(all_results))
    /\ \A i \in FileIdx : \A j \in FileIdx :
         (i < j /\ RuleAt(i) = RuleAt(j)) => StrLess(stdout[i].text, stdout[j].text)
    /\ {<<RuleAt(i), stdout[i].text>> : i \in FileIdx} = {<<t[1], t[2]>> : t \in Triples}
    /\ \A i \in FileIdx :
         LET M == Entry(RuleAt(i), stdout[i].text)
             n == Len(M)
             k == Min(n, MAX_SHOWN)
         IN /\ \A q \in 1..k : stdout[i + q] = OutLine("match", M[q].match, M[q].line, 0)
            /\ n > MAX_SHOWN => stdout[i + k + 1] = OutLine("more", <<>>, n - MAX_SHOWN, 0)
            /\ n <= MAX_SHOWN => stdout[i + k + 1].kind \notin {"match", "more"}

C9_Witness ==
  /\ pc = "done"
  /\ Len(all_results) >= 2
  /\ \E t \in Triples : Len(t[3]) > MAX_SHOWN
  /\ \E t \in Triples : Len(t[3]) = MAX_SHOWN

\* the keys of a dict are distinct and none of its values is empty
WellFormed(d) ==
  \A i \in 1..Len(d) :
    /\ d[i][2] # <<>>
    /\ \A j \in 1..Len(d) : d[j][1] = d[i][1] => j = i

\* A step of the walk: what it does to the aggregate. A scanned file's
\* ScanResult is merged whole under the file's relative path, and every
\* entry merged before is kept as it was.
MergeStep ==
  pending' # pending =>
    /\ \A t \in Triples : t \in Triples'
    /\ \A t \in Triples' \ Triples : t[2] = RelOf(tsx_file') /\ ~Excluded(tsx_file')
    /\ ~Excluded(tsx_file') =>
         \A k \in 1..Len(PATTERNS) :
           ValueOr(ValueOr(all_results', PATTERNS[k][1]), RelOf(tsx_file'))
             = ValueOr(results', PATTERNS[k][1])

\* C10: every match of a file's ScanResult enters the aggregate once, under
\* its rule and the file's relative path, when the file is merged, and stays
\* there unchanged whatever is merged later; no rule or file occurs twice as
\* a key and no entry is empty.
C10_MergeKeepsEveryMatch ==
  /\ [](/\ WellFormed(all_results)
        /\ \A i \in 1..Len(all_results) : WellFormed(all_results[i][2]))
  /\ [][MergeStep]_vars

C10_Witness ==
  /\ AfterWalk
  /\ \E i \in 1..Len(all_results) : Len(all_results[i][2]) >= 2

====
